---- MODULE Spec2Model ----
(***************************************************************************)
(* Model of the key-value store of nishantpratap1/key-value-store-golang. *)
(*                                                                         *)
(* The repository holds two server programs:                               *)
(*   src/kvs_server.go  (port 8081, TTL 15 s, sweep every 2 s, backup)     *)
(*   src/kvs-server.go  (port 8080, TTL 10 s, sweep every 5 s, one sweeper *)
(*                       goroutine started per accepted connection)        *)
(* The variable `variant` says which program a behaviour runs; definitions *)
(* that model code of one file only end in _u (kvs_server.go, underscore)  *)
(* or _h (kvs-server.go, hyphen).                                          *)
(*                                                                         *)
(* Every goroutine is a task with a program counter.  A step of a task is  *)
(* one lock acquisition, or one run of map accesses made without giving up *)
(* the locks held.  Time is a discrete clock of seconds.                   *)
(***************************************************************************)
EXTENDS Integers, Sequences, FiniteSets, TLC

VARIABLES
    variant,    \* which of the two programs runs
    conns,      \* connections main's accept loop has accepted so far
    now,        \* the wall clock, in seconds (time.Now / time.Since)
    data,       \* KeyValueStore.data : map[string]KeyValue
    cache,      \* ServerProxy.cache  : map[string]KeyValue
    kvsMu,      \* KeyValueStore.mu   : sync.RWMutex
    spMu,       \* ServerProxy.mu     : the task holding it, or NoTask
    pc,         \* position of every task
    req,        \* the decoded request of every connection handler
    kget,       \* per handler: what sp.kvs.GET returned (value, ok)
    ret,        \* per handler: what the ServerProxy method returned
    last,       \* the last Response sent (with its request), or the last sweep
    wake,       \* per sleeping background task: when time.Sleep returns
    spawned,    \* the ClearExpiredKeys goroutines started so far
    snapKeys,   \* backup: keys the encoder has already visited
    snapDoc,    \* backup: the entries the encoder has copied so far
    backupFile, \* backup.json: absent, empty (truncated) or a document
    seen,       \* history: values of data since the snapshot was captured
    pre,        \* history, per handler: was the key in the store and in the
                \* cache when the request was accepted
    wrote,      \* history, per key: time of the last SET or UPDATE that
                \* wrote it (Never if none did)
    deleted,    \* history: keys a DELETE was answered with success for,
                \* with no SET or UPDATE of the key accepted since
    openFiles   \* backup: files opened by os.Create whose deferred Close
                \* has not run (a defer runs when the function returns, and
                \* BackupKeyValueStore never returns)

vars == << variant, conns, now, data, cache, kvsMu, spMu, pc, req, kget, ret, last, wake, spawned, snapKeys, snapDoc, backupFile, seen, pre, wrote,
           deleted, openFiles >>

---------------------------------------------------------------------------
(* Program constants, in seconds.                                          *)

DefaultTTL_u == 15
DefaultTTL_h == 10
SweepInterval_u == 2
SweepInterval_h == 5
BackupInterval == 5

(* Bounds of the model.                                                    *)

MaxTime == 22         \* the clock stops here
MaxConns == 4         \* connections accepted in one behaviour
MaxOpenFiles == 2     \* files the process may hold open (RLIMIT_NOFILE)

U == "kvs_server.go"
H == "kvs-server.go"
Variants == {U, H}

Keys == {"name", "ghost"}
Values == {"John", "Alice"}
Actions == {"GET", "SET", "DELETE", "UPDATE", "PING"}

\* Connection handlers (a handler that has answered stands for the handler
\* of the next connection) and ClearExpiredKeys goroutines (kvs-server.go
\* starts one per accepted connection, without limit: two are modelled).
Clients == {"c1", "c2"}
Sweepers == {"s1", "s2"}
Backup == "backup"
Tasks == Clients \cup Sweepers \cup {Backup}
NoTask == "none"

DefaultTTL == IF variant = U THEN DefaultTTL_u ELSE DefaultTTL_h
SweepInterval == IF variant = U THEN SweepInterval_u ELSE SweepInterval_h

---------------------------------------------------------------------------
(* Data types.                                                             *)

\* type KeyValue struct { Value string; Timestamp time.Time }
KeyValue(v, ts) == [Value |-> v, Timestamp |-> ts]

\* type Response struct { Value, Message string; Found, Success bool }
\* (kvs-server.go has no Message field: it stays empty there)
Response(v, m, f, s) == [Value |-> v, Message |-> m, Found |-> f, Success |-> s]
ZeroResponse == Response("", "", FALSE, FALSE)
NoResponse == [Value |-> "-", Message |-> "-", Found |-> FALSE, Success |-> FALSE]

\* a pair (string, bool) as the Go methods return it
Pair(s, b) == [s |-> s, b |-> b]
NoPair == Pair("", FALSE)

NoRequest == [Action |-> "", Key |-> "", Value |-> ""]
NoPre == [store |-> FALSE, cache |-> FALSE]
Never == 0 - 1
NoCall == [op |-> "", key |-> "", value |-> "", resp |-> NoResponse]

EmptyMap == [k \in {} |-> KeyValue("", 0)]

\* backup.json
NoFile == [kind |-> "absent", data |-> EmptyMap]
EmptyFile == [kind |-> "empty", data |-> EmptyMap]
Document(d) == [kind |-> "json", data |-> d]

\* m[k] = e  (Go map assignment)
MapSet(m, k, e) == [x \in DOMAIN m \cup {k} |-> IF x = k THEN e ELSE m[x]]
\* delete(m, k)
MapDelete(m, k) == [x \in DOMAIN m \ {k} |-> m[x]]

---------------------------------------------------------------------------
(* KeyValueStore methods, as functions of the map (the callers take the    *)
(* store lock in a step of their own).                                     *)

\* kvs_server.go: found is false on both paths
KvsGET_u(d, key) ==
    IF key \notin DOMAIN d THEN Pair("NOT_FOUND", FALSE)
    ELSE Pair(d[key].Value, FALSE)

KvsGET_h(d, key) ==
    IF key \notin DOMAIN d THEN Pair("NOT_FOUND", FALSE)
    ELSE Pair(d[key].Value, TRUE)

KvsGET(d, key) == IF variant = U THEN KvsGET_u(d, key) ELSE KvsGET_h(d, key)

\* kvs.SET: unconditional upsert stamped time.Now()
KvsSET(d, key, value) == MapSet(d, key, KeyValue(value, now))

\* kvs.UPDATE of kvs_server.go: [d |-> map after, r |-> (message, updated)]
KvsUPDATE_u(d, key, value) ==
    IF key \notin DOMAIN d THEN [d |-> d, r |-> Pair("VALUE_NOT_EXIST", FALSE)]
    ELSE [d |-> MapSet(d, key, KeyValue(value, now)),
          r |-> Pair("VALUE_UPDATED", TRUE)]

\* kvs.DELETE of kvs_server.go: [d |-> map after, r |-> (message, deleted)]
KvsDELETE_u(d, key) ==
    IF key \notin DOMAIN d THEN [d |-> d, r |-> Pair("VALUE_NOT_EXIST", FALSE)]
    ELSE [d |-> MapDelete(d, key), r |-> Pair("VALUE_DELETED", TRUE)]

\* kvs.DELETE of kvs-server.go returns an error: r.b is (err == nil)
KvsDELETE_h(d, key) ==
    IF key \in DOMAIN d THEN [d |-> MapDelete(d, key), r |-> Pair("", TRUE)]
    ELSE [d |-> d, r |-> Pair("key not found", FALSE)]

---------------------------------------------------------------------------
(* Locks.                                                                  *)

KvsFree == kvsMu.w = NoTask /\ kvsMu.r = {}          \* Lock() can proceed
KvsReadable == kvsMu.w = NoTask                      \* RLock() can proceed
KvsLock(t) == [kvsMu EXCEPT !.w = t]
KvsUnlock == [kvsMu EXCEPT !.w = NoTask]
KvsRLock(t) == [kvsMu EXCEPT !.r = @ \cup {t}]
KvsRUnlock(t) == [kvsMu EXCEPT !.r = @ \ {t}]

---------------------------------------------------------------------------
InitWith(backup) ==
    /\ variant \in Variants
    /\ conns = 0
    /\ now = 0
    /\ data = EmptyMap
    /\ cache = EmptyMap
    /\ kvsMu = [w |-> NoTask, r |-> {}]
    /\ spMu = NoTask
    \* main of kvs_server.go starts one sweeper and the backup task before
    \* it accepts; main of kvs-server.go starts neither
    /\ spawned = IF variant = U THEN {"s1"} ELSE {}
    /\ pc = [t \in Tasks |->
               IF t \in Clients THEN "idle"
               ELSE IF variant = U /\ t = "s1" THEN "sleep"
               ELSE IF variant = U /\ t = Backup /\ backup THEN "sleep"
               ELSE "off"]
    /\ wake = [t \in Sweepers \cup {Backup} |->
               IF variant = U /\ t = "s1" THEN SweepInterval_u
               ELSE IF variant = U /\ t = Backup THEN BackupInterval
               ELSE 0]
    /\ req = [t \in Clients |-> NoRequest]
    /\ kget = [t \in Clients |-> NoPair]
    /\ ret = [t \in Clients |-> NoPair]
    /\ last = NoCall
    /\ snapKeys = {}
    /\ snapDoc = EmptyMap
    /\ backupFile = NoFile
    /\ seen = {}
    /\ pre = [t \in Clients |-> NoPre]
    /\ wrote = [k \in Keys |-> Never]
    /\ deleted = {}
    /\ openFiles = 0

Init == InitWith(TRUE)

\* the same without the backup goroutine, which only reads the store
InitNoBackup == InitWith(FALSE)

---------------------------------------------------------------------------
(* Connection handlers: main's accept loop, handleConnection and the       *)
(* ServerProxy methods it calls.                                           *)

Key(t) == req[t].Key

\* every task is between two runs: no handler, sweep or backup in progress
Resting == \A t \in Tasks : pc[t] \in {"idle", "sleep", "off"}

\* Does the ServerProxy method of this action take sp.mu on entry?
\* kvs_server.go: all four do.  kvs-server.go: GET does not.
LocksProxy(a) ==
    IF variant = U THEN a \in {"GET", "SET", "UPDATE", "DELETE"}
    ELSE a \in {"SET", "UPDATE", "DELETE"}

\* Where the method body starts.
Entry(a) ==
    IF variant = U
    THEN CASE a = "GET" -> "GET_cache"
           [] a = "SET" -> "SET_data"
           [] a = "UPDATE" -> "kvsGET"
           [] a = "DELETE" -> "kvsGET"
    ELSE CASE a = "GET" -> "GET_cache"
           [] a = "SET" -> "kvsLock"
           [] a = "UPDATE" -> "UPDATE_data"
           [] a = "DELETE" -> "DELETE_cache"

\* defer sp.mu.Unlock(), for the methods that locked
SpUnlock(t) == IF spMu = t THEN NoTask ELSE spMu

\* ln.Accept, go handleConnection, decoder.Decode(&request).  kvs-server.go
\* also starts a ClearExpiredKeys goroutine for the connection (the model
\* has the sweepers S to start and starts no more once all of them run).
Accept(t, a, k, v, S, serial) ==
    /\ serial => Resting
    /\ pc[t] = "idle"
    /\ conns < MaxConns
    /\ conns' = conns + 1
    /\ req' = [req EXCEPT ![t] = [Action |-> a, Key |-> k, Value |-> v]]
    /\ IF variant = H /\ spawned # S
       THEN LET s == CHOOSE x \in S : x \notin spawned IN
            /\ spawned' = spawned \cup {s}
            /\ pc' = [pc EXCEPT ![t] = "call", ![s] = "sleep"]
            /\ wake' = [wake EXCEPT ![s] = now + SweepInterval_h]
       ELSE /\ pc' = [pc EXCEPT ![t] = "call"]
            /\ UNCHANGED << spawned, wake >>
    /\ pre' = [pre EXCEPT ![t] = [store |-> k \in DOMAIN data,
                                  cache |-> k \in DOMAIN cache]]
    /\ deleted' = IF a \in {"SET", "UPDATE"} THEN deleted \ {k} ELSE deleted
    /\ UNCHANGED << variant, openFiles, now, data, cache, kvsMu, spMu, kget, ret, last,
                    snapKeys, snapDoc, backupFile, seen, wrote >>

\* sp.mu.Lock() at the head of a ServerProxy method
ProxyLock(t) ==
    /\ pc[t] = "call"
    /\ LocksProxy(req[t].Action)
    /\ spMu = NoTask
    /\ spMu' = t
    /\ pc' = [pc EXCEPT ![t] = Entry(req[t].Action)]
    /\ UNCHANGED << variant, openFiles, conns, now, data, cache, kvsMu, req, kget, ret, last, wake, spawned, snapKeys, snapDoc, backupFile, seen,
                    pre, wrote, deleted >>

\* ServerProxy.GET of kvs-server.go starts without taking sp.mu
ProxyGET_enter_h(t) ==
    /\ pc[t] = "call"
    /\ variant = H
    /\ req[t].Action = "GET"
    /\ pc' = [pc EXCEPT ![t] = Entry("GET")]
    /\ UNCHANGED << variant, openFiles, conns, now, data, cache, kvsMu, spMu, req, kget, ret,
                    last, wake, spawned, snapKeys, snapDoc, backupFile,
                    seen,
                    pre, wrote, deleted >>

\* the switch's default branch: prints, then falls through to the encoder
InvalidAction(t) ==
    /\ pc[t] = "call"
    /\ req[t].Action \notin {"GET", "SET", "UPDATE", "DELETE"}
    /\ pc' = [pc EXCEPT ![t] = "respond"]
    /\ UNCHANGED << variant, openFiles, conns, now, data, cache, kvsMu, spMu, req, kget, ret,
                    last, wake, spawned, snapKeys, snapDoc, backupFile,
                    seen,
                    pre, wrote, deleted >>

\* ServerProxy.GET: the cache lookup.  A hit returns (cached value, true).
ProxyGET_cache(t) ==
    /\ pc[t] = "GET_cache"
    /\ IF Key(t) \in DOMAIN cache
       THEN /\ ret' = [ret EXCEPT ![t] = Pair(cache[Key(t)].Value, TRUE)]
            /\ spMu' = SpUnlock(t)
            /\ pc' = [pc EXCEPT ![t] = "respond"]
       ELSE /\ pc' = [pc EXCEPT ![t] = "kvsGET"]
            /\ UNCHANGED << ret, spMu >>
    /\ UNCHANGED << variant, openFiles, conns, now, data, cache, kvsMu, req, kget, last,
                    wake, spawned, snapKeys, snapDoc, backupFile, seen,
                    pre, wrote, deleted >>

\* KeyValueStore.GET: kvs.mu.RLock()
KvsGET_RLock(t) ==
    /\ pc[t] = "kvsGET"
    /\ KvsReadable
    /\ kvsMu' = KvsRLock(t)
    /\ pc' = [pc EXCEPT ![t] = "kvsGET_read"]
    /\ UNCHANGED << variant, openFiles, conns, now, data, cache, spMu, req, kget, ret, last, wake, spawned, snapKeys, snapDoc, backupFile, seen,
                    pre, wrote, deleted >>

\* KeyValueStore.GET: the lookup, the deferred RUnlock and the return to the
\* ServerProxy method that called it
KvsGET_read(t) ==
    /\ pc[t] = "kvsGET_read"
    /\ kget' = [kget EXCEPT ![t] = KvsGET(data, Key(t))]
    /\ kvsMu' = KvsRUnlock(t)
    /\ pc' = [pc EXCEPT ![t] = CASE req[t].Action = "GET" -> "GET_fill"
                                 [] req[t].Action = "UPDATE" -> "UPDATE_apply"
                                 [] req[t].Action = "DELETE" -> "DELETE_apply"]
    /\ UNCHANGED << variant, openFiles, conns, now, data, cache, spMu, req, ret, last,
                    wake, spawned, snapKeys, snapDoc, backupFile, seen,
                    pre, wrote, deleted >>

\* ServerProxy.GET after the miss: seed the cache if the store said ok, and
\* return (value, true)
ProxyGET_fill(t) ==
    /\ pc[t] = "GET_fill"
    /\ cache' = IF kget[t].b
                THEN MapSet(cache, Key(t), KeyValue(kget[t].s, now))
                ELSE cache
    /\ ret' = [ret EXCEPT ![t] = Pair(kget[t].s, TRUE)]
    /\ spMu' = SpUnlock(t)
    /\ pc' = [pc EXCEPT ![t] = "respond"]
    /\ UNCHANGED << variant, openFiles, conns, now, data, kvsMu, req, kget, last, wake,
                    spawned, snapKeys, snapDoc, backupFile, seen,
                    pre, wrote, deleted >>

\* History: while a backup cycle is between capturing the map and writing
\* the file, every value the store's map takes is recorded in seen, as long
\* as it agrees with what the encoder has copied so far (a value that
\* differs on a copied key cannot be the document in the end).
InBackupCycle == pc[Backup] \in {"create", "encode"}
Agrees(d, ks, doc) == \A k \in ks : k \in DOMAIN d /\ d[k] = doc[k]
Observe(d) ==
    IF InBackupCycle /\ Agrees(d, snapKeys, snapDoc) THEN seen \cup {d}
    ELSE seen

\* ServerProxy.SET of kvs_server.go: writes sp.kvs.data itself, holding
\* sp.mu only
ProxySET_u(t) ==
    /\ pc[t] = "SET_data"
    /\ data' = MapSet(data, Key(t), KeyValue(req[t].Value, now))
    /\ seen' = Observe(data')
    /\ ret' = [ret EXCEPT ![t] = Pair("", TRUE)]
    /\ spMu' = SpUnlock(t)
    /\ pc' = [pc EXCEPT ![t] = "respond"]
    /\ wrote' = [wrote EXCEPT ![Key(t)] = now]
    /\ UNCHANGED << variant, openFiles, conns, now, cache, kvsMu, req, kget, last, wake,
                    spawned, snapKeys, snapDoc, backupFile,
                    pre, deleted >>

\* kvs.mu.Lock() at the head of KeyValueStore.SET and KeyValueStore.DELETE,
\* called by ServerProxy.SET and ServerProxy.DELETE of kvs-server.go
KvsMuLock(t) ==
    /\ pc[t] = "kvsLock"
    /\ KvsFree
    /\ kvsMu' = KvsLock(t)
    /\ pc' = [pc EXCEPT ![t] = "kvsWrite"]
    /\ UNCHANGED << variant, openFiles, conns, now, data, cache, spMu, req, kget, ret, last, wake, spawned, snapKeys, snapDoc, backupFile, seen,
                    pre, wrote, deleted >>

\* ServerProxy.SET with the cache write that kvs-server.go has commented
\* out (line 112) put back
ProxySET_h_cached(t) ==
    /\ pc[t] = "kvsWrite"
    /\ req[t].Action = "SET"
    /\ data' = KvsSET(data, Key(t), req[t].Value)
    /\ cache' = MapSet(cache, Key(t), KeyValue(req[t].Value, now))
    /\ seen' = Observe(data')
    /\ ret' = [ret EXCEPT ![t] = Pair("", TRUE)]
    /\ kvsMu' = KvsUnlock
    /\ spMu' = SpUnlock(t)
    /\ pc' = [pc EXCEPT ![t] = "respond"]
    /\ wrote' = [wrote EXCEPT ![Key(t)] = now]
    /\ UNCHANGED << variant, openFiles, conns, now, req, kget, last, wake,
                    spawned, snapKeys, snapDoc, backupFile, pre, deleted >>

\* ServerProxy.SET of kvs-server.go: sp.kvs.SET under kvs.mu, then both
\* deferred unlocks; the cache is not touched
ProxySET_h(t) ==
    /\ pc[t] = "kvsWrite"
    /\ req[t].Action = "SET"
    /\ data' = KvsSET(data, Key(t), req[t].Value)
    /\ seen' = Observe(data')
    /\ ret' = [ret EXCEPT ![t] = Pair("", TRUE)]
    /\ kvsMu' = KvsUnlock
    /\ spMu' = SpUnlock(t)
    /\ pc' = [pc EXCEPT ![t] = "respond"]
    /\ wrote' = [wrote EXCEPT ![Key(t)] = now]
    /\ UNCHANGED << variant, openFiles, conns, now, cache, req, kget, last, wake, spawned,
                    snapKeys, snapDoc, backupFile,
                    pre, deleted >>

\* ServerProxy.UPDATE of kvs_server.go after sp.kvs.GET returned: not ok
\* returns VALUE_NOT_EXIST; ok calls sp.kvs.UPDATE (which takes kvs.mu) and
\* overwrites the cache entry
ProxyUPDATE_u(t) ==
    /\ pc[t] = "UPDATE_apply"
    /\ IF ~kget[t].b
       THEN /\ ret' = [ret EXCEPT ![t] = Pair("VALUE_NOT_EXIST", FALSE)]
            /\ UNCHANGED << data, cache, seen >>
       ELSE /\ KvsFree
            /\ data' = KvsUPDATE_u(data, Key(t), req[t].Value).d
            /\ seen' = Observe(data')
            /\ cache' = MapSet(cache, Key(t), KeyValue(req[t].Value, now))
            /\ ret' = [ret EXCEPT ![t] = Pair("VALUE_UPDATED", TRUE)]
    /\ spMu' = SpUnlock(t)
    /\ pc' = [pc EXCEPT ![t] = "respond"]
    /\ wrote' = IF kget[t].b THEN [wrote EXCEPT ![Key(t)] = now] ELSE wrote
    /\ UNCHANGED << variant, openFiles, conns, now, kvsMu, req, kget, last, wake, spawned,
                    snapKeys, snapDoc, backupFile,
                    pre, deleted >>

\* ServerProxy.UPDATE of kvs-server.go, first half: the existence check and
\* the write, both on sp.kvs.data itself, holding sp.mu only
ProxyUPDATE_data_h(t) ==
    /\ pc[t] = "UPDATE_data"
    /\ IF Key(t) \notin DOMAIN data
       THEN /\ ret' = [ret EXCEPT ![t] = Pair("", FALSE)]
            /\ spMu' = SpUnlock(t)
            /\ pc' = [pc EXCEPT ![t] = "respond"]
            /\ UNCHANGED << data, seen >>
       ELSE /\ data' = MapSet(data, Key(t), KeyValue(req[t].Value, now))
            /\ seen' = Observe(data')
            /\ pc' = [pc EXCEPT ![t] = "UPDATE_cache"]
            /\ UNCHANGED << ret, spMu >>
    /\ wrote' = IF Key(t) \in DOMAIN data THEN [wrote EXCEPT ![Key(t)] = now]
              ELSE wrote
    /\ UNCHANGED << variant, openFiles, conns, now, cache, kvsMu, req, kget, last, wake,
                    spawned, snapKeys, snapDoc, backupFile,
                    pre, deleted >>

\* ServerProxy.UPDATE of kvs-server.go, second half: overwrite the cache
\* entry if there is one
ProxyUPDATE_cache_h(t) ==
    /\ pc[t] = "UPDATE_cache"
    /\ cache' = IF Key(t) \in DOMAIN cache
                THEN MapSet(cache, Key(t), KeyValue(req[t].Value, now))
                ELSE cache
    /\ ret' = [ret EXCEPT ![t] = Pair("", TRUE)]
    /\ spMu' = SpUnlock(t)
    /\ pc' = [pc EXCEPT ![t] = "respond"]
    /\ UNCHANGED << variant, openFiles, conns, now, data, kvsMu, req, kget, last, wake,
                    spawned, snapKeys, snapDoc, backupFile, seen,
                    pre, wrote, deleted >>

\* ServerProxy.DELETE of kvs_server.go after sp.kvs.GET returned: not ok
\* returns VALUE_NOT_EXIST; ok calls sp.kvs.DELETE (which takes kvs.mu) and
\* evicts the cache entry
ProxyDELETE_u(t) ==
    /\ pc[t] = "DELETE_apply"
    /\ IF ~kget[t].b
       THEN /\ ret' = [ret EXCEPT ![t] = Pair("VALUE_NOT_EXIST", FALSE)]
            /\ UNCHANGED << data, cache, seen >>
       ELSE /\ KvsFree
            /\ data' = KvsDELETE_u(data, Key(t)).d
            /\ seen' = Observe(data')
            /\ cache' = MapDelete(cache, Key(t))
            /\ ret' = [ret EXCEPT ![t] = Pair("VALUE_DELETED", TRUE)]
    /\ spMu' = SpUnlock(t)
    /\ pc' = [pc EXCEPT ![t] = "respond"]
    /\ UNCHANGED << variant, openFiles, conns, now, kvsMu, req, kget, last, wake, spawned,
                    snapKeys, snapDoc, backupFile,
                    pre, wrote, deleted >>

\* the eviction done by emptying the cache instead of deleting one key
ProxyDELETE_cache_h_all(t) ==
    /\ pc[t] = "DELETE_cache"
    /\ cache' = EmptyMap
    /\ pc' = [pc EXCEPT ![t] = "kvsLock"]
    /\ UNCHANGED << variant, openFiles, conns, now, data, kvsMu, spMu, req,
                    kget, ret, last, wake, spawned, snapKeys, snapDoc,
                    backupFile, seen, pre, wrote, deleted >>

\* ServerProxy.DELETE of kvs-server.go: evict from the cache first
ProxyDELETE_cache_h(t) ==
    /\ pc[t] = "DELETE_cache"
    /\ cache' = MapDelete(cache, Key(t))
    /\ pc' = [pc EXCEPT ![t] = "kvsLock"]
    /\ UNCHANGED << variant, openFiles, conns, now, data, kvsMu, spMu, req, kget, ret, last, wake, spawned, snapKeys, snapDoc, backupFile, seen,
                    pre, wrote, deleted >>

\* ServerProxy.DELETE of kvs-server.go: return sp.kvs.DELETE(key), then both
\* deferred unlocks
ProxyDELETE_h(t) ==
    /\ pc[t] = "kvsWrite"
    /\ req[t].Action = "DELETE"
    /\ data' = KvsDELETE_h(data, Key(t)).d
    /\ seen' = Observe(data')
    /\ ret' = [ret EXCEPT ![t] = KvsDELETE_h(data, Key(t)).r]
    /\ kvsMu' = KvsUnlock
    /\ spMu' = SpUnlock(t)
    /\ pc' = [pc EXCEPT ![t] = "respond"]
    /\ UNCHANGED << variant, openFiles, conns, now, cache, req, kget, last, wake, spawned,
                    snapKeys, snapDoc, backupFile,
                    pre, wrote, deleted >>

\* handleConnection's switch: the Response built from what the method
\* returned
ResponseOf_u(a, r) ==
    CASE a = "GET" -> Response(r.s, "", r.b, FALSE)
      [] a = "SET" -> Response("", "", FALSE, TRUE)
      [] a = "DELETE" -> Response("", r.s, FALSE, r.b)
      [] a = "UPDATE" -> Response("", r.s, FALSE, r.b)
      [] OTHER -> ZeroResponse

\* kvs-server.go: DELETE drops the error and reports success
ResponseOf_h(a, r) ==
    CASE a = "GET" -> Response(r.s, "", r.b, FALSE)
      [] a = "SET" -> Response("", "", FALSE, TRUE)
      [] a = "DELETE" -> Response("", "", FALSE, TRUE)
      [] a = "UPDATE" -> Response("", "", FALSE, r.b)
      [] OTHER -> ZeroResponse

ResponseOf(a, r) == IF variant = U THEN ResponseOf_u(a, r) ELSE ResponseOf_h(a, r)

\* encoder.Encode(response), then the deferred conn.Close()
Respond(t) ==
    /\ pc[t] = "respond"
    /\ last' = [op |-> req[t].Action, key |-> Key(t), value |-> req[t].Value,
                resp |-> ResponseOf(req[t].Action, ret[t])]
    /\ req' = [req EXCEPT ![t] = NoRequest]
    /\ pc' = [pc EXCEPT ![t] = "idle"]
    /\ kget' = [kget EXCEPT ![t] = NoPair]
    /\ ret' = [ret EXCEPT ![t] = NoPair]
    /\ pre' = [pre EXCEPT ![t] = NoPre]
    /\ deleted' = IF req[t].Action = "DELETE" /\ last'.resp.Success
                  THEN deleted \cup {Key(t)}
                  ELSE deleted
    /\ UNCHANGED << variant, openFiles, conns, now, data, cache, kvsMu, spMu, wake, spawned,
                    snapKeys, snapDoc, backupFile, seen, wrote >>

---------------------------------------------------------------------------
(* ClearExpiredKeys: for { time.Sleep; kvs.mu.Lock(); sp.mu.Lock(); scan;  *)
(* kvs.mu.Unlock(); sp.mu.Unlock() }                                       *)

\* the comparison off by one: an entry whose age equals the TTL counts as
\* expired
Expired_atTTL(e) == now - e.Timestamp >= DefaultTTL

\* time.Since(value.Timestamp) > DefaultTTL
Expired(e) == now - e.Timestamp > DefaultTTL

\* time.Sleep has returned: kvs.mu.Lock()
SweepLockKvs(s, serial) ==
    /\ serial => Resting
    /\ pc[s] = "sleep"
    /\ now >= wake[s]
    /\ KvsFree
    /\ kvsMu' = KvsLock(s)
    /\ pc' = [pc EXCEPT ![s] = "spLock"]
    /\ UNCHANGED << variant, openFiles, conns, now, data, cache, spMu, req, kget, ret, last,
                    wake, spawned, snapKeys, snapDoc, backupFile, seen,
                    pre, wrote, deleted >>

\* sp.mu.Lock(), holding kvs.mu
SweepLockSp(s) ==
    /\ pc[s] = "spLock"
    /\ spMu = NoTask
    /\ spMu' = s
    /\ pc' = [pc EXCEPT ![s] = "scan"]
    /\ UNCHANGED << variant, openFiles, conns, now, data, cache, kvsMu, req, kget, ret, last,
                    wake, spawned, snapKeys, snapDoc, backupFile, seen,
                    pre, wrote, deleted >>

\* the range loop over kvs.data, both unlocks, and the next time.Sleep
SweepScan(s) ==
    /\ pc[s] = "scan"
    /\ LET gone == {k \in DOMAIN data : Expired(data[k])} IN
       /\ data' = [k \in DOMAIN data \ gone |-> data[k]]
       /\ cache' = [k \in DOMAIN cache \ gone |-> cache[k]]
       /\ last' = [op |-> "SWEEP", key |-> "", value |-> "",
                   resp |-> NoResponse]
    /\ seen' = Observe(data')
    /\ kvsMu' = KvsUnlock
    /\ spMu' = NoTask
    /\ pc' = [pc EXCEPT ![s] = "sleep"]
    /\ wake' = [wake EXCEPT ![s] = now + SweepInterval]
    /\ UNCHANGED << variant, openFiles, conns, now, req, kget, ret, spawned, snapKeys, snapDoc,
                    backupFile,
                    pre, wrote, deleted >>

---------------------------------------------------------------------------
(* BackupKeyValueStore (kvs_server.go only): for { time.Sleep; RLock;      *)
(* snapshot := BackupSnapshot{Data: kvs.data}; RUnlock; os.Create;         *)
(* encoder.Encode(snapshot) }.  snapshot.Data is the store's map itself,   *)
(* not a copy: the encoder ranges over the live map after the RUnlock.     *)

\* time.Sleep has returned: RLock, take the map reference, RUnlock
BackupCapture(serial) ==
    /\ serial => Resting
    /\ pc[Backup] = "sleep"
    /\ now >= wake[Backup]
    /\ KvsReadable
    /\ pc' = [pc EXCEPT ![Backup] = "create"]
    /\ seen' = {data}
    /\ UNCHANGED << variant, openFiles, conns, now, data, cache, kvsMu, spMu, req, kget, ret,
                    last, wake, spawned, snapKeys, snapDoc, backupFile,
                    pre, wrote, deleted >>

\* os.Create(BackupFileName): truncates the file, or fails and the loop
\* continues with the next cycle.  It cannot succeed once the process holds
\* as many open files as it may.  defer file.Close() only registers the
\* call: the file stays open.
BackupCreate(ok) ==
    /\ pc[Backup] = "create"
    /\ ok => openFiles < MaxOpenFiles
    /\ IF ok
       THEN /\ backupFile' = EmptyFile
            /\ openFiles' = openFiles + 1
            /\ pc' = [pc EXCEPT ![Backup] = "encode"]
            /\ UNCHANGED << wake, seen >>
       ELSE /\ pc' = [pc EXCEPT ![Backup] = "sleep"]
            /\ wake' = [wake EXCEPT ![Backup] = now + BackupInterval]
            /\ seen' = {}
            /\ UNCHANGED << backupFile, openFiles >>
    /\ UNCHANGED << variant, conns, now, data, cache, kvsMu, spMu, req, kget, ret,
                    last, spawned, snapKeys, snapDoc,
                    pre, wrote, deleted >>

\* encoder.Encode: the map encoder visits one more entry of the live map
\* and copies it
BackupEncodeEntry(k) ==
    /\ pc[Backup] = "encode"
    /\ k \in DOMAIN data \ snapKeys
    /\ snapKeys' = snapKeys \cup {k}
    /\ snapDoc' = MapSet(snapDoc, k, data[k])
    /\ seen' = {d \in seen : Agrees(d, snapKeys', snapDoc')}
    /\ UNCHANGED << variant, openFiles, conns, now, data, cache, kvsMu, spMu, pc, req, kget,
                    ret, last, wake, spawned, backupFile,
                    pre, wrote, deleted >>

\* encoder.Encode: no entry left to visit; the document is written to the
\* file, or the write fails; either way the loop goes on to time.Sleep
BackupWrite(ok) ==
    /\ pc[Backup] = "encode"
    /\ DOMAIN data \subseteq snapKeys
    /\ backupFile' = IF ok THEN Document(snapDoc) ELSE backupFile
    /\ snapKeys' = {}
    /\ snapDoc' = EmptyMap
    /\ seen' = {}
    /\ pc' = [pc EXCEPT ![Backup] = "sleep"]
    /\ wake' = [wake EXCEPT ![Backup] = now + BackupInterval]
    /\ UNCHANGED << variant, openFiles, conns, now, data, cache, kvsMu, spMu, req, kget, ret,
                    last, spawned,
                    pre, wrote, deleted >>

---------------------------------------------------------------------------
(* Which map accesses the next step of a task makes, by its position.      *)

\* reads of kvs.data: the lookup of KeyValueStore.GET, the existence check
\* of kvs-server.go's ServerProxy.UPDATE, the sweeper's range loop and the
\* backup encoder's range loop
ReadsData(t) ==
    pc[t] \in {"kvsGET_read", "UPDATE_data", "kvsWrite", "scan", "encode"}

\* writes of kvs.data: ServerProxy.SET of kvs_server.go, KeyValueStore.SET
\* and DELETE, kvs-server.go's ServerProxy.UPDATE, the sweeper's delete
WritesData(t) == pc[t] \in {"SET_data", "kvsWrite", "UPDATE_data", "scan"}

\* reads of sp.cache: the lookup of ServerProxy.GET, the presence check of
\* kvs-server.go's ServerProxy.UPDATE
ReadsCache(t) == pc[t] \in {"GET_cache", "UPDATE_cache"}

\* writes of sp.cache: the fill of ServerProxy.GET after the store said ok,
\* kvs-server.go's UPDATE and DELETE, the sweeper's delete
WritesCache(t) ==
    \/ pc[t] = "GET_fill" /\ kget[t].b
    \/ pc[t] \in {"UPDATE_cache", "DELETE_cache", "scan"}

HoldsKvsShared(t) == t \in kvsMu.r \/ kvsMu.w = t
HoldsKvsExclusive(t) == kvsMu.w = t
HoldsSp(t) == spMu = t

\* two tasks about to access the same map, one of them writing it, with no
\* lock between them: nothing orders the two accesses
MapRace ==
    \E t1, t2 \in Tasks :
        /\ t1 # t2
        /\ \/ WritesData(t1) /\ (ReadsData(t2) \/ WritesData(t2))
           \/ WritesCache(t1) /\ (ReadsCache(t2) \/ WritesCache(t2))

\* The Go runtime may detect a map written while it is read, ranged over or
\* written ("fatal error: concurrent map read and map write", "concurrent
\* map writes", "concurrent map iteration and map write") and end the
\* process; when it does not, the accesses happen in either order.
Fatal ==
    /\ MapRace
    /\ pc' = [t \in Tasks |-> "crashed"]
    /\ UNCHANGED << variant, openFiles, conns, now, data, cache, kvsMu, spMu, req, kget,
                    ret, last, wake, spawned, snapKeys, snapDoc, backupFile,
                    seen, pre, wrote, deleted >>

---------------------------------------------------------------------------
(* The clock.  Computation takes no time: the clock moves only when no     *)
(* task can take a step, that is when every task is waiting for a request, *)
(* asleep, or blocked on a lock.                                           *)

ClientStep(t) ==
    \/ ProxyLock(t) \/ ProxyGET_enter_h(t) \/ InvalidAction(t)
    \/ ProxyGET_cache(t) \/ KvsGET_RLock(t) \/ KvsGET_read(t)
    \/ ProxyGET_fill(t) \/ ProxySET_u(t) \/ KvsMuLock(t) \/ ProxySET_h(t)
    \/ ProxyUPDATE_u(t) \/ ProxyUPDATE_data_h(t) \/ ProxyUPDATE_cache_h(t)
    \/ ProxyDELETE_u(t) \/ ProxyDELETE_cache_h(t) \/ ProxyDELETE_h(t)
    \/ Respond(t)

SweeperStep(s) == SweepLockKvs(s, FALSE) \/ SweepLockSp(s) \/ SweepScan(s)

BackupStep ==
    \/ BackupCapture(FALSE)
    \/ \E ok \in BOOLEAN : BackupCreate(ok) \/ BackupWrite(ok)
    \/ \E k \in Keys : BackupEncodeEntry(k)

CanRun ==
    \/ \E t \in Clients : ENABLED ClientStep(t)
    \/ \E s \in Sweepers : ENABLED SweeperStep(s)
    \/ ENABLED BackupStep

Advance(d) ==
    /\ pc[Backup] # "crashed"
    /\ ~CanRun
    /\ now + d <= MaxTime
    /\ now' = now + d
    /\ UNCHANGED << variant, openFiles, conns, data, cache, kvsMu, spMu, pc, req, kget, ret,
                    last, wake, spawned, snapKeys, snapDoc, backupFile, seen,
                    pre, wrote, deleted >>

---------------------------------------------------------------------------
(* Specifications.                                                         *)

\* the requests a client sends: GET, DELETE and the rest carry no value
Requests(K, V) ==
    [Action : {"SET", "UPDATE"}, Key : K, Value : V]
        \cup [Action : {"GET", "DELETE", "PING"}, Key : K, Value : {""}]

\* One step of the handlers C serving requests over keys K and values V,
\* of the sweepers S, or of the clock in steps of D.  With serial set, a
\* handler or a sweep cycle starts only when nothing else is in progress.
Step(C, K, V, S, D, serial) ==
    \/ \E t \in C, r \in Requests(K, V) :
          Accept(t, r.Action, r.Key, r.Value, S, serial)
    \/ \E t \in C : ProxyLock(t)
    \/ \E t \in C : ProxyGET_enter_h(t)
    \/ \E t \in C : InvalidAction(t)
    \/ \E t \in C : ProxyGET_cache(t)
    \/ \E t \in C : KvsGET_RLock(t)
    \/ \E t \in C : KvsGET_read(t)
    \/ \E t \in C : ProxyGET_fill(t)
    \/ \E t \in C : ProxySET_u(t)
    \/ \E t \in C : KvsMuLock(t)
    \/ \E t \in C : ProxySET_h(t)
    \/ \E t \in C : ProxyUPDATE_u(t)
    \/ \E t \in C : ProxyUPDATE_data_h(t)
    \/ \E t \in C : ProxyUPDATE_cache_h(t)
    \/ \E t \in C : ProxyDELETE_u(t)
    \/ \E t \in C : ProxyDELETE_cache_h(t)
    \/ \E t \in C : ProxyDELETE_h(t)
    \/ \E t \in C : Respond(t)
    \/ \E s \in S : SweepLockKvs(s, serial)
    \/ \E s \in S : SweepLockSp(s)
    \/ \E s \in S : SweepScan(s)
    \/ \E d \in D : Advance(d)

\* One step of the backup task.
BackupSteps(serial) ==
    \/ BackupCapture(serial)
    \/ \E ok \in BOOLEAN : BackupCreate(ok)
    \/ \E k \in Keys : BackupEncodeEntry(k)
    \/ \E ok \in BOOLEAN : BackupWrite(ok)

\* a long quiet period: longer than either TTL
Idle == {DefaultTTL_u + 1}

\* Requests, sweeps and backups one after the other.
Next == Step({"c1"}, Keys, Values, Sweepers, Idle, TRUE) \/ BackupSteps(TRUE)
Spec == Init /\ [][Next]_vars

\* Two handlers and the sweepers interleaved step by step, on one key.
NextConc == Step(Clients, {"name"}, Values, Sweepers, Idle, FALSE) \/ Fatal
SpecConc == InitNoBackup /\ [][NextConc]_vars

\* One handler, one sweeper and the backup task (which only kvs_server.go
\* has) interleaved step by step.
NextBackup ==
    Step({"c1"}, Keys, Values, {"s1"}, Idle, FALSE) \/ BackupSteps(FALSE)
        \/ Fatal
SpecBackup == Init /\ [][NextBackup]_vars

\* One handler and one sweeper on one key, the clock in seconds.
NextTimed == Step({"c1"}, {"name"}, {"John"}, {"s1"}, {1}, FALSE) \/ Fatal
SpecTimed == InitNoBackup /\ [][NextTimed]_vars

\* Requests, sweeps and backup cycles one after the other, the clock in
\* steps of the backup interval: several backup cycles in one behaviour.
NextSnapshot ==
    Step({"c1"}, {"name"}, {"John"}, {"s1"}, {BackupInterval}, TRUE)
        \/ BackupSteps(TRUE)
SpecSnapshot == Init /\ [][NextSnapshot]_vars

\* Requests and sweeps one after the other, on one key, where a client may
\* store the text that KeyValueStore.GET returns for a missing key.
NotFoundText == "NOT_FOUND"
NextSentinel ==
    Step({"c1"}, {"name"}, {NotFoundText, "John"}, {"s1"}, Idle, TRUE)
SpecSentinel == InitNoBackup /\ [][NextSentinel]_vars

---------------------------------------------------------------------------
(* Properties.  Under Spec the requests run one after the other, so the    *)
(* Response a handler sends is the answer to a request made in the state   *)
(* the previous answer (or sweep) left, and last still holds that previous *)
(* answer when the next one is sent.                                       *)

\* this step is handler t sending the Response to its request a on key k;
\* the Response is last'.resp
RespondsBy(t, a, k) ==
    /\ pc[t] = "respond" /\ pc'[t] = "idle"
    /\ req[t].Action = a /\ req[t].Key = k

Responds(a, k) == \E t \in Clients : RespondsBy(t, a, k)

\* handler t is inside the ServerProxy method of its request a on key k
Running(t, a, k) ==
    /\ pc[t] \notin {"idle", "call", "respond"}
    /\ req[t].Action = a /\ req[t].Key = k

\* C1: read-your-write.  The GET(k) that directly follows a SET(k, v)
\* (nothing answered and no sweep in between) returns (v, found=true).
C1_ReadYourWrite ==
    [][\A k \in Keys :
          (last.op = "SET" /\ last.key = k /\ Responds("GET", k))
              => (last'.resp.Value = last.value /\ last'.resp.Found)]_vars

\* C2: GET(k) reports found=true exactly if k is in the store: a key in
\* neither store nor cache gets ("", false), a key in the store gets
\* (stored value, true).  (GET never changes the store, and changes the
\* cache only for a key that is in the store.)
C2_GetFoundIffStored ==
    [][\A k \in Keys :
          Responds("GET", k) =>
              /\ last'.resp.Found <=> k \in DOMAIN data
              /\ (k \notin DOMAIN data /\ k \notin DOMAIN cache)
                    => (last'.resp.Value = "" /\ ~last'.resp.Found)
              /\ k \in DOMAIN data
                    => (last'.resp.Value = data[k].Value /\ last'.resp.Found)]_vars

\* C3: update requires existence.  UPDATE(k, v) of a key that is not in the
\* store is answered success=false, no step of it changes the store or the
\* cache, and the GET(k) that follows still reports not-found.
C3_UpdateRequiresExistence ==
    [][\A k \in Keys : k \notin DOMAIN data =>
          /\ (\E t \in Clients : Running(t, "UPDATE", k))
                => (data' = data /\ cache' = cache)
          /\ Responds("UPDATE", k) => ~last'.resp.Success
          /\ (last.op = "UPDATE" /\ last.key = k /\ Responds("GET", k))
                => ~last'.resp.Found]_vars

\* C4: UPDATE(k, v) of a key that is in the store is answered success=true,
\* the store then holds v for k, and the GET(k) that follows returns v.
C4_UpdateExisting ==
    [][\A k \in Keys : k \in DOMAIN data =>
          /\ Responds("UPDATE", k)
                => (last'.resp.Success /\ data[k].Value = last'.value)
          /\ (last.op = "UPDATE" /\ last.key = k /\ Responds("GET", k))
                => last'.resp.Value = last.value]_vars

\* C5: delete is final.  A DELETE(k) answered with success leaves k in
\* neither store nor cache, and as long as no SET or UPDATE of k follows, k
\* stays out of both and every GET(k) reports not-found.
C5_DeleteIsFinal ==
    [][\A k \in Keys :
          /\ (Responds("DELETE", k) /\ last'.resp.Success)
                => (k \notin DOMAIN data' /\ k \notin DOMAIN cache')
          /\ k \in deleted =>
                /\ k \notin DOMAIN data /\ k \notin DOMAIN cache
                /\ Responds("GET", k) => ~last'.resp.Found]_vars

\* C6: after DELETE(k) has returned k is in neither the cache nor the
\* store, whatever the outcome, and the outcome sent to the client is
\* success exactly if k was in the store when DELETE was called.
C6_DeleteOutcome ==
    [][\A k \in Keys : \A t \in Clients :
          RespondsBy(t, "DELETE", k) =>
              /\ k \notin DOMAIN data' /\ k \notin DOMAIN cache'
              /\ last'.resp.Success <=> pre[t].store]_vars

\* C7: TTL expiry is enforced.  A key last written at time T is in neither
\* the store nor the cache in any state later than T + TTL + sweep interval
\* (computation takes no time, so a sweep that is due and not blocked runs
\* before the clock moves).
C7_ExpiredKeyIsGone ==
    \A k \in Keys :
        (wrote[k] # Never /\ now > wrote[k] + DefaultTTL + SweepInterval)
            => (k \notin DOMAIN data /\ k \notin DOMAIN cache)

\* C8: snapshot point-in-time consistency.  The document a backup cycle
\* writes equals the store's map as it was at one instant between the
\* capture of the map and the write, whatever runs concurrently.
C8_SnapshotPointInTime ==
    [][(pc[Backup] = "encode" /\ backupFile'.kind = "json")
          => backupFile'.data \in seen]_vars

\* a handler that holds sp.mu and waits for kvs.mu
WaitsForKvs(t) ==
    \/ pc[t] = "kvsGET" /\ ~KvsReadable
    \/ pc[t] = "kvsLock" /\ ~KvsFree

\* C9: no deadlock.  No sweeper holds the store lock and waits for the
\* proxy lock while a handler holds the proxy lock and waits for the store
\* lock.
C9_NoDeadlock ==
    ~ \E s \in Sweepers, t \in Clients :
          /\ pc[s] = "spLock" /\ kvsMu.w = s
          /\ spMu = t /\ WaitsForKvs(t)

\* C10: lock discipline.  Every read of the store's map is made holding the
\* store lock, every write holding it exclusively, every access to the
\* cache holding the proxy lock; so no task writes a map while another task
\* reads or writes it.
C10_LockDiscipline ==
    /\ \A t \in Tasks :
          /\ ReadsData(t) => HoldsKvsShared(t)
          /\ WritesData(t) => HoldsKvsExclusive(t)
          /\ (ReadsCache(t) \/ WritesCache(t)) => HoldsSp(t)
    /\ ~MapRace

\* the conclusion of C10 alone
NoMapRace == ~MapRace

---------------------------------------------------------------------------
(* Properties of the handler's dispatch, the background tasks and the      *)
(* cache.                                                                  *)

RecognizedActions == {"GET", "SET", "DELETE", "UPDATE"}

\* handler t serves a request whose action the switch does not know
Unrecognized(t) == req[t] # NoRequest /\ req[t].Action \notin RecognizedActions

\* C11: an unrecognized action gets no response.  No step of a handler that
\* serves a request with an action other than GET, SET, DELETE, UPDATE
\* sends a Response, and none changes the store or the cache.
C11_UnrecognizedGetsNoResponse ==
    [][\A t \in Clients :
          Unrecognized(t) =>
              /\ last' = last
              /\ data' = data /\ cache' = cache]_vars

\* the ClearExpiredKeys goroutines that have been started
RunningSweepers == {s \in Sweepers : pc[s] # "off"}

\* C13: exactly one expiration sweeper runs in every state after startup,
\* however many connections have been accepted.
C13_ExactlyOneSweeper == Cardinality(RunningSweepers) = 1

\* C14: whenever no proxy operation and no sweep is in progress, every key
\* of the cache is a key of the store.
C14_CacheSubsetOfStore ==
    Resting => DOMAIN cache \subseteq DOMAIN data

\* C15: a GET(k) that finds k in the store and not in the cache returns the
\* stored value, leaves the store as it is, and leaves k in the cache with
\* that value; a GET(k) of a key that is in neither leaves the cache as it
\* is.
C15_MissSeedsCache ==
    [][\A t \in Clients : \A k \in Keys :
          /\ Running(t, "GET", k) => data' = data
          /\ (RespondsBy(t, "GET", k) /\ ~pre[t].cache) =>
                IF pre[t].store
                THEN /\ k \in DOMAIN data
                     /\ last'.resp.Value = data[k].Value
                     /\ k \in DOMAIN cache
                     /\ cache[k].Value = data[k].Value
                ELSE k \notin DOMAIN cache]_vars

\* this step is the backup task giving up its cycle: os.Create failed, or
\* encoder.Encode failed after the file was truncated
BackupFails ==
    /\ pc'[Backup] = "sleep"
    /\ \/ pc[Backup] = "create"
       \/ pc[Backup] = "encode" /\ backupFile' = backupFile

\* C12: a failed snapshot cycle never stops the snapshot loop.  The step
\* that abandons a cycle leaves the store unchanged and the backup task
\* holding no lock and asleep until the next cycle; and whenever a cycle has
\* come to creating or writing the file, it can still succeed.
C12_FailedCycleDoesNotStopLoop ==
    [][/\ BackupFails =>
            /\ data' = data
            /\ ~HoldsKvsShared(Backup)' /\ ~HoldsSp(Backup)'
            /\ wake'[Backup] = now + BackupInterval
       /\ pc[Backup] = "create" => ENABLED BackupCreate(TRUE)
       /\ (pc[Backup] = "encode" /\ DOMAIN data \subseteq snapKeys)
            => ENABLED BackupWrite(TRUE)]_vars

\* this step is the range loop of a sweep cycle
Sweeps == \E s \in Sweepers : pc[s] = "scan" /\ pc'[s] = "sleep"

\* this step is a step of a handler serving DELETE(k)
Deletes(k) ==
    \E t \in Clients :
        req[t].Action = "DELETE" /\ req[t].Key = k /\ pc'[t] # pc[t]

ServesStep(t, a, k) ==
    /\ req[t].Action = a /\ req[t].Key = k
    /\ pc'[t] # pc[t]

\* C17: SET is write-through to the store only.  No step of a SET(k, v)
\* changes the cache; the only change it makes to the store is to set k to
\* v stamped with the current time; and when its Response is sent (requests
\* run one after the other) the Response says success and the store holds
\* (v, now) for k.
C17_SetWritesStoreOnly ==
    [][\A t \in Clients : \A k \in Keys :
          ServesStep(t, "SET", k) =>
              /\ cache' = cache
              /\ data' # data
                    => data' = MapSet(data, k, KeyValue(req[t].Value, now))
              /\ pc'[t] = "idle" =>
                    /\ last'.resp.Success
                    /\ k \in DOMAIN data
                    /\ data[k] = KeyValue(req[t].Value, now)]_vars

\* a SET of a key whose cache entry holds another value has been answered
C17_Witness ==
    /\ last.op = "SET" /\ last.resp.Success
    /\ last.key \in DOMAIN cache /\ last.key \in DOMAIN data
    /\ cache[last.key].Value # last.value
    /\ data[last.key].Value = last.value

\* the entry of k in a map, or that there is none
EntryAt(m, k) == IF k \in DOMAIN m THEN << TRUE, m[k] >> ELSE << FALSE >>

\* C19: per-key independence.  A step that changes the store entry or the
\* cache entry of a key (presence, value or timestamp) is a step of a GET,
\* SET, UPDATE or DELETE naming that key, or a sweep.
C19_PerKeyIndependence ==
    [][\A k2 \in Keys :
          (EntryAt(data', k2) # EntryAt(data, k2)
              \/ EntryAt(cache', k2) # EntryAt(cache, k2))
          => \/ Sweeps
             \/ \E t \in Clients, a \in RecognizedActions :
                    ServesStep(t, a, k2)]_vars

\* a DELETE of one key has been answered while another key is in the store
\* and in the cache
C19_Witness ==
    /\ Resting
    /\ last.op = "DELETE" /\ last.key = "name"
    /\ "name" \notin DOMAIN data
    /\ "ghost" \in DOMAIN data /\ "ghost" \in DOMAIN cache

\* what a GET of a key that is in neither store nor cache is answered
\* (checked by AbsentGetAnswer below)
AbsentGet == Response(NotFoundText, "", TRUE, FALSE)

\* every GET(k) of a key in neither store nor cache is answered AbsentGet
AbsentGetAnswer ==
    [][\A k \in Keys :
          (Responds("GET", k) /\ k \notin DOMAIN data /\ k \notin DOMAIN cache)
              => last'.resp = AbsentGet]_vars

\* C18: absence cannot be told from the stored text "NOT_FOUND".  A GET(k)
\* made while the store holds the value "NOT_FOUND" for k gets the same
\* Response, value and found flag, as a GET(k) of a key that is in neither
\* store nor cache.
C18_AbsenceLooksLikeNotFound ==
    [][\A k \in Keys :
          (Responds("GET", k) /\ k \in DOMAIN data
              /\ data[k].Value = NotFoundText)
              => last'.resp = AbsentGet]_vars

\* the same where the cache holds no entry for k that differs from the
\* store's
SentinelWithFreshCache ==
    [][\A k \in Keys :
          (Responds("GET", k) /\ k \in DOMAIN data
              /\ data[k].Value = NotFoundText
              /\ (k \in DOMAIN cache => cache[k].Value = NotFoundText))
              => last'.resp = AbsentGet]_vars

====
